---------------------------- MODULE Spec2Model ----------------------------
(***************************************************************************)
(* A model of the Mount Royal scraper of Schedule Storm                    *)
(* (src/uni/MTRoyal.py, src/uni/University.py): the listing parser         *)
(* parseClassList, the note grouping engine parseNotes /                   *)
(* processNoteFragment / classRange, the section assembler addClasses and  *)
(* the description fetch pool CourseDescriptions.                          *)
(*                                                                         *)
(* Python strings are sequences of one-character strings, so that split,   *)
(* strip, replace, upper, int() and the regular expressions act on the     *)
(* text as the code does.  A Python int and a Python str stored in the     *)
(* same list are kept apart by a tag (PyInt / PyStr).                      *)
(***************************************************************************)
EXTENDS Integers, Sequences, FiniteSets, TLC

(***************************************************************************)
(* Bounds of the model.                                                    *)
(***************************************************************************)
\* rows read by one scrape (all terms together)
MaxRows == 4
\* terms returned by obtainActiveTerms
MaxTerms == 2
\* largest settings["descConcurrency"] explored
MaxWorkers == 2
\* notes applied in a row to one grouping map (specification SpecNotes)
MaxNotes == 3
\* the largest end of a range handed to classRange by itself
MaxEnd == 11
\* the terms the portal may list in the scrapes that updateTerms is called in
MaxTermIds == 3

(***************************************************************************)
(* Python strings.                                                         *)
(***************************************************************************)
Digits == <<"0", "1", "2", "3", "4", "5", "6", "7", "8", "9">>
LowerCase == <<"a", "b", "c", "d", "e", "f", "g", "h", "i", "j", "k", "l", "m",
               "n", "o", "p", "q", "r", "s", "t", "u", "v", "w", "x", "y", "z">>
UpperCase == <<"A", "B", "C", "D", "E", "F", "G", "H", "I", "J", "K", "L", "M",
               "N", "O", "P", "Q", "R", "S", "T", "U", "V", "W", "X", "Y", "Z">>

Range(f) == {f[i] : i \in DOMAIN f}
DigitChars == Range(Digits)
WordChars == Range(Digits) \cup Range(LowerCase) \cup Range(UpperCase) \cup {"_"}

\* \d of the re module
IsDigit(c) == c \in DigitChars
\* \w of the re module
IsWord(c) == c \in WordChars
\* the character u'\xa0' (a non-breaking space)
NBSP == "nbsp"
\* str.isspace
SpaceChars == {" ", "\n", "\t", NBSP}
IsSpace(c) == c \in SpaceChars

\* s[a:b] with 1-based inclusive ends; empty when a > b
Slice(s, a, b) == IF a > b THEN <<>> ELSE SubSeq(s, a, b)

\* whether sub occurs in s at position i
OccursAt(s, sub, i) ==
    /\ i >= 1
    /\ i + Len(sub) - 1 <= Len(s)
    /\ \A k \in 1..Len(sub) : s[i + k - 1] = sub[k]

\* str.startswith
StartsWith(s, prefix) == OccursAt(s, prefix, 1)

\* the `in` operator on strings
Contains(s, sub) == \E i \in 1..(Len(s) + 1) : OccursAt(s, sub, i)

\* first position >= from at which sub occurs in s, 0 when there is none
RECURSIVE Find(_, _, _)
Find(s, sub, from) ==
    IF from + Len(sub) - 1 > Len(s) THEN 0
    ELSE IF OccursAt(s, sub, from) THEN from
    ELSE Find(s, sub, from + 1)

\* str.upper
UpperOf == [c \in Range(LowerCase) |->
               UpperCase[CHOOSE i \in DOMAIN LowerCase : LowerCase[i] = c]]
UpperChar(c) == IF c \in DOMAIN UpperOf THEN UpperOf[c] ELSE c
Upper(s) == [i \in 1..Len(s) |-> UpperChar(s[i])]

\* str.strip(chars), str.lstrip(chars), str.rstrip(chars): the characters of
\* the set `chars` are taken off the ends
RECURSIVE FirstKept(_, _, _)
FirstKept(s, chars, i) ==
    IF i > Len(s) \/ s[i] \notin chars THEN i ELSE FirstKept(s, chars, i + 1)
RECURSIVE LastKept(_, _, _)
LastKept(s, chars, i) ==
    IF i < 1 \/ s[i] \notin chars THEN i ELSE LastKept(s, chars, i - 1)
LStripChars(s, chars) == Slice(s, FirstKept(s, chars, 1), Len(s))
RStripChars(s, chars) == Slice(s, 1, LastKept(s, chars, Len(s)))
StripChars(s, chars) == LStripChars(RStripChars(s, chars), chars)

\* str.lstrip, str.rstrip, str.strip without an argument: white space
LStrip(s) == LStripChars(s, SpaceChars)
RStrip(s) == RStripChars(s, SpaceChars)
Strip(s) == StripChars(s, SpaceChars)

\* str.replace(old, new): every non-overlapping occurrence, left to right
RECURSIVE ReplaceFrom(_, _, _, _)
ReplaceFrom(s, old, new, from) ==
    LET at == Find(s, old, from)
    IN  IF at = 0 THEN Slice(s, from, Len(s))
        ELSE Slice(s, from, at - 1) \o new \o ReplaceFrom(s, old, new, at + Len(old))
Replace(s, old, new) ==
    IF old = <<>>
    THEN \* Python puts `new` around every character; with new = "" s is unchanged
         IF new = <<>> THEN s ELSE
         LET RECURSIVE Weave(_)
             Weave(i) == IF i > Len(s) THEN new ELSE new \o <<s[i]>> \o Weave(i + 1)
         IN  Weave(1)
    ELSE ReplaceFrom(s, old, new, 1)

\* str.split(sep) with a non-empty separator
RECURSIVE SplitFrom(_, _, _)
SplitFrom(s, sep, from) ==
    LET at == Find(s, sep, from)
    IN  IF at = 0 THEN <<Slice(s, from, Len(s))>>
        ELSE <<Slice(s, from, at - 1)>> \o SplitFrom(s, sep, at + Len(sep))
Split(s, sep) == SplitFrom(s, sep, 1)

\* value of a digit character
DigitValOf == [c \in Range(Digits) |-> (CHOOSE i \in DOMAIN Digits : Digits[i] = c) - 1]
DigitVal(c) == DigitValOf[c]

\* int(s) succeeds: white space around, an optional sign, digits that single
\* underscores may separate
IntOk(s) ==
    LET t    == Strip(s)
        body == IF t # <<>> /\ t[1] \in {"+", "-"} THEN Slice(t, 2, Len(t)) ELSE t
    IN  /\ body # <<>>
        /\ \A i \in 1..Len(body) : IsDigit(body[i]) \/ body[i] = "_"
        /\ IsDigit(body[1])
        /\ IsDigit(body[Len(body)])
        /\ \A i \in 1..(Len(body) - 1) : ~(body[i] = "_" /\ body[i + 1] = "_")

\* int(s) of a string for which IntOk holds
RECURSIVE DigitsValue(_, _)
DigitsValue(body, acc) ==
    IF body = <<>> THEN acc
    ELSE IF body[1] = "_" THEN DigitsValue(Tail(body), acc)
    ELSE DigitsValue(Tail(body), 10 * acc + DigitVal(body[1]))
IntOf(s) ==
    LET t    == Strip(s)
        neg  == t[1] = "-"
        body == IF t[1] \in {"+", "-"} THEN Slice(t, 2, Len(t)) ELSE t
    IN  IF neg THEN 0 - DigitsValue(body, 0) ELSE DigitsValue(body, 0)

\* str(n) of an int
RECURSIVE NatStr(_)
NatStr(n) == IF n < 10 THEN <<Digits[n + 1]>> ELSE NatStr(n \div 10) \o <<Digits[(n % 10) + 1]>>
Str(n) == IF n < 0 THEN <<"-">> \o NatStr(0 - n) ELSE NatStr(n)


(***************************************************************************)
(* Python values kept in a group list: parseNotes stores an int for the    *)
(* calling class (line 265) and processNoteFragment a str (line 350).      *)
(***************************************************************************)
PyInt(n) == [t |-> "int", n |-> n, s |-> <<>>]
PyStr(s) == [t |-> "str", n |-> 0, s |-> s]

\* int(groupval) succeeds / its value
PyIntOk(v) == v.t = "int" \/ IntOk(v.s)
PyIntOf(v) == IF v.t = "int" THEN v.n ELSE IntOf(v.s)

\* d[k] = v of a dict
DictSet(d, k, v) == [x \in DOMAIN d \cup {k} |-> IF x = k THEN v ELSE d[x]]
EmptyDict == [x \in {} |-> <<>>]

SetMax(S) == CHOOSE x \in S : \A y \in S : x >= y
SetMin(S) == CHOOSE x \in S : \A y \in S : x <= y

(***************************************************************************)
(* MTRoyal.instructionTypes and self.invertedTypes.                        *)
(***************************************************************************)
instructionTypes ==
    { << <<"L", "E", "C">>, <<"L", "E", "C", "T", "U", "R", "E">> >>,
      << <<"L", "A", "B">>, <<"L", "A", "B">> >>,
      << <<"T", "U", "T">>, <<"T", "U", "T", "O", "R", "I", "A", "L">> >>,
      << <<"D", "D">>, <<"D", "I", "S", "T", "A", "N", "C", "E", " ", "D", "E", "L", "I", "V", "E", "R", "Y">> >>,
      << <<"B", "L">>, <<"B", "L", "E", "N", "D", "E", "D", " ", "D", "E", "L", "I", "V", "E", "R", "Y">> >>,
      << <<"W", "K", "T">>, <<"W", "O", "R", "K", " ", "T", "E", "R", "M">> >>,
      << <<"F", "L", "D">>, <<"F", "I", "E", "L", "D", " ", "W", "O", "R", "K">> >>,
      << <<"P", "R", "C">>, <<"P", "R", "A", "C", "T", "I", "C", "U", "M">> >>,
      << <<"C", "L", "I">>, <<"C", "L", "I", "N", "I", "C", "A", "L">> >>,
      << <<"I", "D", "S">>, <<"I", "N", "T", "E", "R", "N", "S", "H", "I", "P">> >> }

\* {v: k for k, v in self.instructionTypes.items()}
invertedTypesWithSeminar ==
    [name \in {p[2] : p \in instructionTypes} \cup {<<"S", "E", "M", "I", "N", "A", "R">>} |->
        IF name = <<"S", "E", "M", "I", "N", "A", "R">> THEN <<"S", "E", "M">>
        ELSE (CHOOSE p \in instructionTypes : p[2] = name)[1]]
invertedTypes ==
    [name \in {p[2] : p \in instructionTypes} |->
        (CHOOSE p \in instructionTypes : p[2] = name)[1]]

(***************************************************************************)
(* The regular expressions of parseNotes.                                  *)
(***************************************************************************)
\* A character class is a set of characters and whether the class is the set
\* (TRUE) or its complement (FALSE).
InClass(c, class) == (c \in class[1]) = class[2]
ClassDigit == <<DigitChars, TRUE>>
ClassNotDigit == <<DigitChars, FALSE>>
ClassWordOrSpace == <<WordChars \cup {" "}, TRUE>>
ClassNotStop == <<{".", ";"}, FALSE>>

\* last position of the longest run of characters of the class that starts
\* at `from` (from - 1 when the run is empty)
RECURSIVE RunEnd(_, _, _)
RunEnd(s, from, class) ==
    IF from > Len(s) \/ ~InClass(s[from], class) THEN from - 1
    ELSE RunEnd(s, from + 1, class)

\* first position of the longest run of characters of the class that ends
\* at `to` (to + 1 when the run is empty)
RECURSIVE RunStart(_, _, _)
RunStart(s, to, class) ==
    IF to < 1 \/ ~InClass(s[to], class) THEN to + 1
    ELSE RunStart(s, to - 1, class)

TakeWord == <<" ", "t", "a", "k", "e", " ">>

\* re.search("(\w[ \w]*) (\d*) take ([^.;]*)", note): the leftmost start, and
\* for it the longest first group with which the rest still matches.  A match
\* ends in an occurrence of " take " at t, preceded by a run of digits, preceded
\* by one space at p; the first group ends at p - 1 and starts at a word
\* character inside the run of word characters and spaces that ends there.
NoteMatches(note) ==
    LET takes == {t \in 1..Len(note) : OccursAt(note, TakeWord, t)}
        SpaceBefore(t) == RunStart(note, t - 1, ClassDigit) - 1
        Starts(t) ==
            LET p == SpaceBefore(t)
            IN  IF p < 2 \/ note[p] # " " THEN {}
                ELSE {i \in RunStart(note, p - 1, ClassWordOrSpace)..(p - 1) : IsWord(note[i])}
    IN  UNION {{<<i, t>> : i \in Starts(t)} : t \in takes}

NoteSearch(note) ==
    LET ms == NoteMatches(note)
    IN  IF ms = {} THEN [ok |-> FALSE, groups |-> <<>>]
        ELSE LET i == SetMin({m[1] : m \in ms})
                 t == SetMax({m[2] : m \in {x \in ms : x[1] = i}})
                 p == RunStart(note, t - 1, ClassDigit) - 1
             IN  [ok |-> TRUE,
                  groups |-> << Slice(note, i, p - 1),
                                Slice(note, p + 1, t - 1),
                                Slice(note, t + 6, RunEnd(note, t + 6, ClassNotStop)) >>]

\* re.search("(\D*)", group).groups()[0]: the match at position 0, which may
\* be empty
LeadingNonDigits(group) == Slice(group, 1, RunEnd(group, 1, ClassNotDigit))

(***************************************************************************)
(* classRange (lines 303-316).  int() of either end may raise ValueError.  *)
(***************************************************************************)
classRangeRaises(classes) ==
    LET parts == Split(classes, <<"-">>)
    IN  ~IntOk(parts[1]) \/ ~IntOk(parts[2])

classRangeHalfOpen(classes) ==
    LET parts == Split(classes, <<"-">>)
        a == IntOf(parts[1])
        b == IntOf(parts[2])
    IN  [k \in 1..(IF b > a THEN b - a ELSE 0) |-> Str(a + k - 1)]
classRange(classes) ==
    LET parts == Split(classes, <<"-">>)
        a == IntOf(parts[1])
        b == IntOf(parts[2])
    IN  [k \in 1..(IF b >= a THEN b - a + 1 ELSE 0) |-> Str(a + k - 1)]

(***************************************************************************)
(* processNoteFragment (lines 318-350).  The result is the dictionary left *)
(* behind and whether an exception left the function.                      *)
(***************************************************************************)
\* the id a clause's classes get (line 350)
ClauseGroupIdNext(curgroupnum) == Str(curgroupnum)
ClauseGroupId(curgroupnum) == Str(curgroupnum - 1)

\* lines 344-350 for the classes of one alternative
RECURSIVE LinkClasses(_, _, _, _)
LinkClasses(classes, curdict, curgroupnum, type) ==
    IF classes = <<>> THEN curdict
    ELSE LET classcode == type \o <<" ">> \o Strip(Head(classes))
             old == IF classcode \in DOMAIN curdict THEN curdict[classcode] ELSE <<>>
         IN  LinkClasses(Tail(classes),
                         DictSet(curdict, classcode,
                                 Append(old, PyStr(ClauseGroupId(curgroupnum)))),
                         curgroupnum, type)

RECURSIVE LinkAlternatives(_, _, _, _)
LinkAlternatives(orgroups, curdict, curgroupnum, type) ==
    IF orgroups = <<>> THEN [dict |-> curdict, raised |-> FALSE]
    ELSE LET group == Head(orgroups)
         IN  IF Contains(group, <<"-">>) /\ classRangeRaises(group)
             THEN [dict |-> curdict, raised |-> TRUE]
             ELSE LET classes == IF Contains(group, <<"-">>) THEN classRange(group)
                                 ELSE IF Contains(group, <<",">>) THEN Split(group, <<",">>)
                                 ELSE <<group>>
                  IN  LinkAlternatives(Tail(orgroups),
                                       LinkClasses(classes, curdict, curgroupnum, type),
                                       curgroupnum, type)

processNoteFragment(group, curdict, curgroupnum, callingClass, type) ==
    LinkAlternatives(Split(group, <<" ", "o", "r", " ">>), curdict, curgroupnum, type)

(***************************************************************************)
(* parseNotes (lines 222-301).                                             *)
(***************************************************************************)
\* lines 237-245: one above the largest id of the dictionary
StartGroupNumByCount(curdict) == Cardinality(DOMAIN curdict) + 1
StartGroupNum(curdict) ==
    SetMax({0} \cup UNION {{PyIntOf(curdict[k][i]) : i \in DOMAIN curdict[k]} :
                                k \in DOMAIN curdict}) + 1

OneOf == <<"o", "n", "e", " ", "o", "f">>

\* lines 268-301 for one piece of the split by "and"
ParseClause(piece, curdict, curgroupnum, callingClass) ==
    LET stripped == Strip(piece)
        oneof    == StartsWith(stripped, OneOf)
        group    == IF oneof THEN Strip(Replace(stripped, OneOf, <<>>)) ELSE stripped
        found    == LeadingNonDigits(group)
        rest     == Strip(Replace(group, found, <<>>))
        word     == Strip(Upper(found))
        instructiontype == IF oneof THEN Slice(word, 1, Len(word) - 1) ELSE word
    IN  IF instructiontype \in DOMAIN invertedTypes
        THEN processNoteFragment(rest, curdict, curgroupnum, callingClass,
                                 invertedTypes[instructiontype])
        ELSE [dict |-> curdict, raised |-> FALSE]

RECURSIVE ParseClauses(_, _, _, _)
ParseClauses(classgroups, curdict, curgroupnum, callingClass) ==
    IF classgroups = <<>> THEN [dict |-> curdict, raised |-> FALSE]
    ELSE LET r == ParseClause(Head(classgroups), curdict, curgroupnum, callingClass)
         IN  IF r.raised THEN r
             ELSE ParseClauses(Tail(classgroups), r.dict, curgroupnum, callingClass)

\* whether the note has the shape and a known type word (lines 248-254)
NoteRecognised(note) ==
    LET m == NoteSearch(note)
    IN  m.ok /\ Upper(m.groups[1]) \in DOMAIN invertedTypes

\* the key of the calling class (line 262)
CallingClass(note) ==
    LET m == NoteSearch(note)
    IN  invertedTypes[Upper(m.groups[1])] \o <<" ">> \o m.groups[2]

\* the value the calling class is given (line 265)
CallingValueEmpty(curdict, callingClass, curgroupnum) == <<>>
CallingValue(curdict, callingClass, curgroupnum) == <<PyInt(curgroupnum)>>

parseNotes(note, curdict) ==
    LET curgroupnum == StartGroupNum(curdict)
    IN  IF ~NoteRecognised(note) THEN [dict |-> curdict, raised |-> FALSE]
        ELSE LET callingClass == CallingClass(note)
                 classgroups  == Split(NoteSearch(note).groups[3], <<"a", "n", "d">>)
             IN  ParseClauses(classgroups,
                              DictSet(curdict, callingClass,
                                      CallingValue(curdict, callingClass, curgroupnum)),
                              curgroupnum + 1, callingClass)

(***************************************************************************)
(* parseClassList: the columns of one row (lines 366-384, 423-529).        *)
(* A row is [th, td]: th is the class of its <th> ("ddtitle", "ddheader"   *)
(* or "none") and td the texts of its <td> cells, cell i being             *)
(* columnIndex i - 1.  A class under construction is a Python dict: a      *)
(* function whose domain is the keys set so far.                           *)
(***************************************************************************)
NoKey == [name |-> "", type |-> "False"]
Key(name, type) == [name |-> name, type |-> type]
columnKeys ==
    << NoKey, Key("id", "int"), Key("subject", "string"), Key("coursenum", "string"),
       Key("section", "string"), NoKey, Key("title", "string"), Key("type", "string"),
       Key("times", "list"), Key("times", "list"), NoKey, NoKey,
       Key("status", "string"), NoKey, Key("teachers", "list"), NoKey,
       Key("rooms", "list"), NoKey >>

\* list[-1] += text
AddToLast(list, text) == [list EXCEPT ![Len(list)] = @ \o text]

\* the seats column of a primary row (lines 483-495)
SeatStatusNoWaitList(thisClass, thiscolumn) ==
    DictSet(thisClass, "status", IF IntOk(thiscolumn) THEN "Open" ELSE "Closed")
SeatStatus(thisClass, thiscolumn) ==
    IF ~IntOk(thiscolumn) THEN DictSet(thisClass, "status", "Closed")
    ELSE IF IntOf(thiscolumn) > 0 THEN DictSet(thisClass, "status", "Open")
    ELSE IF "status" \notin DOMAIN thisClass THEN DictSet(thisClass, "status", "Wait List")
    ELSE thisClass

\* the time column (lines 471-481)
FormatTime(thiscolumn) ==
    Replace(Replace(Replace(thiscolumn, <<"-">>, <<" ", "-", " ">>), <<" ", "p", "m">>, <<"P", "M">>), <<" ", "a", "m">>, <<"A", "M">>)

\* the teacher column (lines 497-510)
AddTeacherAsRead(thisClass, text) ==
    LET thiscolumn == Strip(RStripChars(text, {" ", "(", "P", ")"}))
        teachers == IF "teachers" \in DOMAIN thisClass THEN thisClass["teachers"] ELSE <<>>
    IN  IF thiscolumn \notin Range(teachers)
        THEN DictSet(thisClass, "teachers", Append(teachers, thiscolumn))
        ELSE DictSet(thisClass, "teachers", teachers)
AddTeacher(thisClass, text) ==
    LET thiscolumn == Strip(RStripChars(text, {" ", "(", "P", ")"}))
        teachers == IF "teachers" \in DOMAIN thisClass THEN thisClass["teachers"] ELSE <<>>
        teacherFormattedName ==
            Replace(Replace(thiscolumn, <<" ", " ", " ">>, <<" ">>), <<" ", " ">>, <<" ">>)
    IN  IF thiscolumn \notin Range(teachers) /\ teacherFormattedName \notin Range(teachers)
        THEN DictSet(thisClass, "teachers", Append(teachers, teacherFormattedName))
        ELSE DictSet(thisClass, "teachers", teachers)

\* lines 454-455: the course number differs from that of the row before
CourseChangedNever(lastClassCopy, thiscolumn) == FALSE
CourseChanged(lastClassCopy, thiscolumn) ==
    "coursenum" \in DOMAIN lastClassCopy /\ lastClassCopy["coursenum"] # thiscolumn

\* line 522: a column without a rule of its own is stored for a primary row
ScalarStoredOnAnyRow(isLastClass) == TRUE
ScalarStored(isLastClass) == ~isLastClass

\* lines 441-527: a cell whose column has a key.  st is the state of the row
\* loop: thisClass, isLastClass, newCourse, isNote, the grouping map, whether
\* an exception left the loop, and the starting group numbers of the notes
\* that were recognised.
StoreColumn(st, columnIndex, thiscolumn, lastClassCopy) ==
    LET key == columnKeys[columnIndex + 1]
        thisClass == st.thisClass
        list == IF key.name \in DOMAIN thisClass THEN thisClass[key.name] ELSE <<>>
    IN  IF columnIndex = 3 /\ ~st.isLastClass
        THEN [st EXCEPT !.newCourse = @ \/ CourseChanged(lastClassCopy, thiscolumn),
                        !.thisClass = DictSet(thisClass, "coursenum", thiscolumn)]
        ELSE IF columnIndex = 8
        THEN [st EXCEPT !.thisClass = DictSet(thisClass, "times", Append(list, thiscolumn))]
        ELSE IF columnIndex = 9
        THEN IF list = <<>> THEN [st EXCEPT !.raised = "KeyError"]
             ELSE [st EXCEPT !.thisClass =
                      DictSet(thisClass, "times",
                              AddToLast(list, IF list[Len(list)] # <<>>
                                              THEN <<" ">> \o FormatTime(thiscolumn)
                                              ELSE FormatTime(thiscolumn)))]
        ELSE IF columnIndex = 12 /\ ~st.isLastClass
        THEN [st EXCEPT !.thisClass = SeatStatus(thisClass, thiscolumn)]
        ELSE IF columnIndex = 14
        THEN [st EXCEPT !.thisClass = AddTeacher(thisClass, thiscolumn)]
        ELSE IF columnIndex = 16
        THEN [st EXCEPT !.thisClass = DictSet(thisClass, "rooms", Append(list, thiscolumn))]
        ELSE IF ScalarStored(st.isLastClass)
        THEN IF key.type = "int"
             THEN IF IntOk(thiscolumn)
                  THEN [st EXCEPT !.thisClass = DictSet(thisClass, key.name, IntOf(thiscolumn))]
                  ELSE [st EXCEPT !.raised = "ValueError"]
             ELSE [st EXCEPT !.thisClass = DictSet(thisClass, key.name, thiscolumn)]
        ELSE st

\* line 438: the row loop after the call parseNotes(note, courseGroupings),
\* which left the map r.dict behind or raised
AfterParseNotes(st, note, r) ==
    [st EXCEPT !.groupings = r.dict,
               !.raised = IF r.raised THEN "ValueError in classRange" ELSE @,
               !.notes = Append(@, [note |-> note, base |-> StartGroupNum(st.groupings)])]

\* lines 424-527: one cell of a row
ProcessCell(st0, columnIndex, text, lastClassCopy) ==
    LET st == IF columnIndex = 0 /\ text = <<NBSP>>
              THEN [st0 EXCEPT !.isLastClass = TRUE, !.thisClass = lastClassCopy]
              ELSE st0
    IN  IF ~((columnIndex > 0 /\ ~st.isLastClass) \/ (columnIndex > 5 /\ st.isLastClass))
        THEN st
        ELSE IF st.isLastClass /\ columnIndex = 6 /\ Contains(text, <<"N", "o", "t", "e">>)
        THEN [st EXCEPT !.isNote = TRUE]
        ELSE IF st.isNote /\ columnIndex = 7
        THEN AfterParseNotes(st, Strip(StripChars(text, {"\n"})),
                             parseNotes(Strip(StripChars(text, {"\n"})), st.groupings))
        ELSE IF columnIndex < Len(columnKeys) /\ columnKeys[columnIndex + 1] # NoKey
        THEN StoreColumn(st, columnIndex, Strip(text), lastClassCopy)
        ELSE st

\* the loop over the cells of a row (line 423); an exception ends it
RECURSIVE ProcessCells(_, _, _, _)
ProcessCells(st, td, columnIndex, lastClassCopy) ==
    IF columnIndex >= Len(td) \/ st.raised # "none" THEN st
    ELSE ProcessCells(ProcessCell(st, columnIndex, td[columnIndex + 1], lastClassCopy),
                      td, columnIndex + 1, lastClassCopy)

\* lines 411-529 for one row that is neither a title nor a header
ProcessRow(td, lastClassCopy, courseGroupings) ==
    ProcessCells([thisClass |-> EmptyDict, isLastClass |-> FALSE, newCourse |-> FALSE,
                  isNote |-> FALSE, groupings |-> courseGroupings, raised |-> "none",
                  notes |-> <<>>],
                 td, 0, lastClassCopy)

(***************************************************************************)
(* The document store.  updateClass, getCourseDescription and              *)
(* updateCourseDesc are methods of University that the scraper calls and   *)
(* that are not part of the source at hand; they are modelled as the store *)
(* interface of the specification (upsertSection, hasDescription,          *)
(* upsertDescription).  classLog is the sequence of Sections handed to     *)
(* updateClass; CourseDesc maps <<subject, coursenum>> to the stored       *)
(* description.                                                            *)
(***************************************************************************)
updateClass(log, section) == Append(log, section)
getCourseDescription(descs, coursenum, subject) == <<subject, coursenum>> \in DOMAIN descs
updateCourseDesc(descs, descobj) ==
    DictSet(descs, <<descobj["subject"], descobj["coursenum"]>>, descobj)

(***************************************************************************)
(* addClasses (lines 566-606).                                             *)
(***************************************************************************)
\* lines 587-592: the group of a class
GroupOrIntOne(groupings, groupkey) ==
    IF groupkey \in DOMAIN groupings THEN groupings[groupkey] ELSE <<PyInt(1)>>
Group(groupings, groupkey) ==
    IF groupkey \in DOMAIN groupings THEN groupings[groupkey] ELSE <<PyStr(<<"1">>)>>

GroupKey(thisclass) == thisclass["type"] \o <<" ">> \o thisclass["section"]

\* lines 580-594: the dict handed to updateClass
Section(thisclass, groupings, term) ==
    [k \in (DOMAIN thisclass \ {"title"}) \cup {"term", "group", "location"} |->
        CASE k = "term" -> term
          [] k = "group" -> Group(groupings, GroupKey(thisclass))
          [] k = "location" -> "Main Campus"
          [] OTHER -> thisclass[k]]

\* line 606: the list put on the queue
FetchTask(thisclass) == <<thisclass["coursenum"], thisclass["subject"], thisclass["title"]>>

\* lines 599-603: whether a list is put on the queue for a class
FetchNeededWithoutDesc(retrievingDesc, hasDesc) == ~hasDesc
FetchNeeded(retrievingDesc, hasDesc) == ~retrievingDesc /\ ~hasDesc

\* the loop of lines 579-606; acc holds the Sections passed to updateClass,
\* the lists put on the queue and retrievingDesc
RECURSIVE AddClassesLoop(_, _, _, _, _)
AddClassesLoop(classlist, groupings, term, descs, acc) ==
    IF classlist = <<>> THEN acc
    ELSE LET thisclass == Head(classlist)
             enqueue == FetchNeeded(acc.retrievingDesc,
                                    getCourseDescription(descs, thisclass["coursenum"],
                                                         thisclass["subject"]))
         IN  AddClassesLoop(Tail(classlist), groupings, term, descs,
                 [sections |-> Append(acc.sections, Section(thisclass, groupings, term)),
                  tasks |-> IF enqueue THEN Append(acc.tasks, FetchTask(thisclass))
                            ELSE acc.tasks,
                  retrievingDesc |-> acc.retrievingDesc \/ enqueue])

addClassesButFirst(classlist, groupings, term, descs) ==
    AddClassesLoop(IF classlist = <<>> THEN classlist ELSE Tail(classlist),
                   groupings, IntOf(term), descs,
                   [sections |-> <<>>, tasks |-> <<>>, retrievingDesc |-> FALSE])
addClasses(classlist, groupings, term, descs) ==
    AddClassesLoop(classlist, groupings, IntOf(term), descs,
                   [sections |-> <<>>, tasks |-> <<>>, retrievingDesc |-> FALSE])

(***************************************************************************)
(* CourseDescriptions.processBody (lines 677-735).  A page is              *)
(* [status, notfound, welcome, title, rows]: the status code, whether the  *)
(* text holds "page not found", whether the document has the               *)
(* <article class="welcome"> with its <h2 class="title">, the text of that *)
(* heading, and the lines of the article's paragraphs.                     *)
(***************************************************************************)
\* the character of the title's separator (an en dash)
NDASH == "ndash"

RECURSIVE JoinStr(_, _)
JoinStr(parts, sep) ==
    IF parts = <<>> THEN <<>>
    ELSE IF Len(parts) = 1 THEN parts[1]
    ELSE parts[1] \o sep \o JoinStr(Tail(parts), sep)

\* lines 709-733: one line of a paragraph; st is [obj, index]
DescRow(st, text) ==
    LET row == Replace(Strip(text), <<NBSP>>, <<" ">>)
        parts == Split(row, <<":">>)
        rowtitle == Strip(parts[1])
        value == Strip(JoinStr(Tail(parts), <<":">>))
    IN  IF row = <<>> THEN st
        ELSE [index |-> st.index + 1,
              obj |-> IF st.index = 0 THEN DictSet(st.obj, "hours", row)
                      ELSE IF st.index = 1 THEN DictSet(st.obj, "desc", row)
                      ELSE IF StartsWith(rowtitle, <<"N", "o", "t", "e">>) THEN DictSet(st.obj, "note", value)
                      ELSE IF StartsWith(rowtitle, <<"P", "r", "e", "r", "e", "q">>) THEN DictSet(st.obj, "prereq", value)
                      ELSE IF StartsWith(rowtitle, <<"C", "o", "r", "e", "q">>) THEN DictSet(st.obj, "coreq", value)
                      ELSE IF StartsWith(rowtitle, <<"a", "n", "t", "i", "r", "e", "q">>) THEN DictSet(st.obj, "antireq", value)
                      ELSE st.obj]

RECURSIVE DescRows(_, _)
DescRows(st, rows) ==
    IF rows = <<>> THEN st ELSE DescRows(DescRow(st, Head(rows)), Tail(rows))

\* the dict handed to updateCourseDesc when processBody returns normally
DescObjWhateverTheError(data, body, error) ==
    LET descobj == [k \in {"subject", "coursenum", "name"} |->
                       CASE k = "subject" -> data[2]
                         [] k = "coursenum" -> data[1]
                         [] k = "name" -> data[3]]
    IN  IF ~body.welcome THEN descobj
        ELSE DescRows([obj |-> descobj, index |-> 0], body.rows).obj
DescObj(data, body, error) ==
    LET descobj == [k \in {"subject", "coursenum", "name"} |->
                       CASE k = "subject" -> data[2]
                         [] k = "coursenum" -> data[1]
                         [] k = "name" -> data[3]]
        titlediv == Split(Strip(body.title), <<NDASH>>)
        named == IF Len(titlediv) > 1
                 THEN DictSet(descobj, "name", Strip(JoinStr(Tail(titlediv), <<NDASH>>)))
                 ELSE descobj
    IN  IF error THEN descobj
        ELSE DescRows([obj |-> named, index |-> 0], body.rows).obj

\* soup.find("article", ...) is None: the .find on it raises AttributeError
processBodyRaises(body, error) == ~error /\ ~body.welcome

\* lines 750-753
SoftError(r) == r.notfound \/ r.status # 200

(***************************************************************************)
(* The inputs: the rows a listing is made of, the pages the description    *)
(* site answers with, the term ids of the portal.                          *)
(***************************************************************************)
TitleRow == [th |-> "ddtitle", td |-> <<>>]
HeaderRow == [th |-> "ddheader", td |-> <<>>]

\* a primary row: the eighteen cells of a section
PrimaryRow(id, subject, coursenum, section, title, type, days, time, rem, teacher, room) ==
    [th |-> "none",
     td |-> << <<>>, id, subject, coursenum, section, <<>>, title, type, days, time,
               <<>>, <<>>, rem, <<>>, teacher, <<>>, room, <<>> >>]

\* a continuation row: another meeting of the section above it
ContinuationRow(days, time, teacher, room) ==
    [th |-> "none",
     td |-> << <<NBSP>>, <<NBSP>>, <<NBSP>>, <<NBSP>>, <<NBSP>>, <<NBSP>>, <<NBSP>>, <<NBSP>>,
               days, time, <<NBSP>>, <<NBSP>>, <<NBSP>>, <<NBSP>>, teacher, <<NBSP>>,
               room, <<NBSP>> >>]

\* a note row: eight cells, the note in the last
NoteRow(note) ==
    [th |-> "none",
     td |-> << <<NBSP>>, <<NBSP>>, <<NBSP>>, <<NBSP>>, <<NBSP>>, <<NBSP>>, <<"N", "o", "t", "e", ":">>, note >>]

\* "Lecture 001 take lab 501"
NoteLecLab == <<"L", "e", "c", "t", "u", "r", "e", " ", "0", "0", "1", " ", "t", "a", "k", "e", " ", "l", "a", "b", " ", "5", "0", "1">>
\* "Lab 501 take lecture 001"
NoteLabLec == <<"L", "a", "b", " ", "5", "0", "1", " ", "t", "a", "k", "e", " ", "l", "e", "c", "t", "u", "r", "e", " ", "0", "0", "1">>
\* "Lecture 001 take one of labs 503-501": a range with A > B
NoteEmptyRange == <<"L", "e", "c", "t", "u", "r", "e", " ", "0", "0", "1", " ", "t", "a", "k", "e", " ", "o", "n", "e", " ", "o", "f", " ", "l", "a", "b", "s", " ", "5", "0", "3", "-", "5", "0", "1">>
\* "Lecture 001 take one of labs 501-": a range without its upper end
NoteBadRange == <<"L", "e", "c", "t", "u", "r", "e", " ", "0", "0", "1", " ", "t", "a", "k", "e", " ", "o", "n", "e", " ", "o", "f", " ", "l", "a", "b", "s", " ", "5", "0", "1", "-">>
\* "Lecture 001 take care": no clause resolves
NoteNoClause == <<"L", "e", "c", "t", "u", "r", "e", " ", "0", "0", "1", " ", "t", "a", "k", "e", " ", "c", "a", "r", "e">>
\* "See advisor": not the shape of a grouping note
NoteOtherShape == <<"S", "e", "e", " ", "a", "d", "v", "i", "s", "o", "r">>
\* "Seminar 001 take lab 501": an unknown type word
NoteUnknownType == <<"S", "e", "m", "i", "n", "a", "r", " ", "0", "0", "1", " ", "t", "a", "k", "e", " ", "l", "a", "b", " ", "5", "0", "1">>
\* "Tutorial 401 take one of labs 501,502 and lecture 001"
NoteTutorial == <<"T", "u", "t", "o", "r", "i", "a", "l", " ", "4", "0", "1", " ", "t", "a", "k", "e", " ", "o", "n", "e", " ", "o", "f", " ", "l", "a", "b", "s", " ", "5", "0", "1", ",", "5", "0", "2", " ", "a", "n", "d", " ", "l", "e", "c", "t", "u", "r", "e", " ", "0", "0", "1">>
\* "Lecture 001 take lab": a type word without a section number
NoteNoSection == <<"L", "e", "c", "t", "u", "r", "e", " ", "0", "0", "1", " ", "t", "a", "k", "e", " ", "l", "a", "b">>
\* "Lecture 007 take one of tutorials 401-403 or 406-407 and one of labs 501-502"
NoteLecture007 ==
    <<"L", "e", "c", "t", "u", "r", "e", " ", "0", "0", "7", " ", "t", "a", "k", "e", " ", "o", "n", "e", " ", "o", "f", " ", "t", "u", "t", "o", "r", "i", "a", "l", "s", " ", "4", "0", "1", "-", "4", "0", "3", " ", "o", "r", " ", "4", "0", "6", "-", "4", "0", "7", " ", "a", "n", "d", " ", "o", "n", "e", " ", "o", "f", " ", "l", "a", "b", "s", " ", "5", "0", "1", "-", "5", "0", "2">>

\* ACCT 1000 LEC 001, 5 seats left
RowAcctLec ==
    PrimaryRow(<<"1", "0", "0", "0", "1">>, <<"A", "C", "C", "T">>, <<"1", "0", "0", "0">>, <<"0", "0", "1">>, <<"I", "n", "t", "r", "o">>, <<"L", "E", "C">>, <<"M", "W", "F">>,
               <<"0", "1", ":", "0", "0", " ", "p", "m", "-", "0", "1", ":", "5", "0", " ", "p", "m">>, <<"5">>, <<"J", "o", "h", "n", " ", " ", "S", "m", "i", "t", "h", " ", "(", "P", ")">>, <<"B", "1", "0", "1">>)
\* ACCT 1000 LAB 501, no seat left
RowAcctLab ==
    PrimaryRow(<<"1", "0", "0", "0", "2">>, <<"A", "C", "C", "T">>, <<"1", "0", "0", "0">>, <<"5", "0", "1">>, <<"I", "n", "t", "r", "o">>, <<"L", "A", "B">>, <<"T", "B", "A">>,
               <<>>, <<"0">>, <<"J", "o", "h", "n", " ", "S", "m", "i", "t", "h">>, <<"B", "1", "0", "2">>)
\* ACCT 2000 LEC 001, closed
RowAcct2000 ==
    PrimaryRow(<<"1", "0", "0", "0", "3">>, <<"A", "C", "C", "T">>, <<"2", "0", "0", "0">>, <<"0", "0", "1">>, <<"C", "o", "s", "t", "s">>, <<"L", "E", "C">>, <<"T", "R">>,
               <<"0", "9", ":", "0", "0", " ", "a", "m", "-", "1", "0", ":", "2", "0", " ", "a", "m">>, <<"C">>, <<"A", "n", "n", " ", "L", "e", "e">>, <<"B", "1", "0", "1">>)
\* BIOL 1000 LEC 001: the course number of ACCT 1000 under another subject
RowBiolLec ==
    PrimaryRow(<<"2", "0", "0", "0", "1">>, <<"B", "I", "O", "L">>, <<"1", "0", "0", "0">>, <<"0", "0", "1">>, <<"C", "e", "l", "l", "s">>, <<"L", "E", "C">>, <<"M", "W", "F">>,
               <<"0", "2", ":", "0", "0", " ", "p", "m", "-", "0", "2", ":", "5", "0", " ", "p", "m">>, <<"3">>, <<"A", "n", "n", " ", "L", "e", "e">>, <<"C", "2", "0", "1">>)
\* a row whose id cell is not an integer
RowBadId ==
    PrimaryRow(<<"1", "0", "0", "0", "x">>, <<"A", "C", "C", "T">>, <<"2", "0", "0", "0">>, <<"5", "0", "1">>, <<"C", "o", "s", "t", "s">>, <<"L", "A", "B">>, <<"F">>,
               <<"0", "9", ":", "0", "0", " ", "a", "m", "-", "1", "0", ":", "2", "0", " ", "a", "m">>, <<"2">>, <<"A", "n", "n", " ", "L", "e", "e">>, <<"B", "1", "0", "2">>)
RowMeeting == ContinuationRow(<<"F">>, <<"0", "3", ":", "0", "0", " ", "p", "m", "-", "0", "3", ":", "5", "0", " ", "p", "m">>, <<"J", "o", "h", "n", " ", "S", "m", "i", "t", "h">>, <<"B", "1", "0", "3">>)

\* a continuation row whose seats cell holds a number and whose teacher cell
\* has the name with two spaces
RowMeetingSeats ==
    [th |-> "none",
     td |-> [ContinuationRow(<<"S">>, <<"1", "0", ":", "0", "0", " ", "a", "m", "-", "1", "0", ":", "5", "0", " ", "a", "m">>, <<"J", "o", "h", "n", " ", " ", "S", "m", "i", "t", "h">>, <<"B", "1", "0", "4">>).td
                EXCEPT ![13] = <<"3">>]]

PrimaryRows == {RowAcctLec, RowAcctLab, RowAcct2000, RowBiolLec, RowBadId}
RowNotes == {NoteLecLab, NoteLabLec, NoteEmptyRange, NoteBadRange}
\* the rows a listing is made of when parseClassList is looked at by itself
ListingRows ==
    {TitleRow, HeaderRow, RowMeeting, RowMeetingSeats} \cup PrimaryRows \cup {NoteRow(n) : n \in RowNotes}
\* the rows a listing is made of when the whole scrape is looked at
ScrapeRows == {HeaderRow, RowAcctLec, RowAcct2000, RowBiolLec, RowBadId}

\* the notes of the specification SpecNotes
Notes == {NoteLecLab, NoteLabLec, NoteEmptyRange, NoteBadRange, NoteNoClause,
          NoteOtherShape, NoteUnknownType, NoteTutorial, NoteLecture007, NoteNoSection}

\* a page of the description site
PageFound ==
    [status |-> 200, notfound |-> FALSE, welcome |-> TRUE,
     title |-> <<"A", "C", "C", "T", " ", NDASH, " ">> \o <<"A", "c", "c", "o", "u", "n", "t", "i", "n", "g">>,
     rows |-> << <<"3", " ", "c", "r", "e", "d", "i", "t", "s">>, <<"A", "n", " ", "i", "n", "t", "r", "o", "d", "u", "c", "t", "i", "o", "n", ".">>, <<"P", "r", "e", "r", "e", "q", "u", "i", "s", "i", "t", "e", ":", " ", "N", "o", "n", "e">>, <<>> >>]
PageNotFound ==
    [status |-> 404, notfound |-> TRUE, welcome |-> FALSE, title |-> <<>>, rows |-> <<>>]
PageOtherLayout ==
    [status |-> 200, notfound |-> FALSE, welcome |-> FALSE, title |-> <<>>, rows |-> <<>>]
\* a server error whose body has the layout of a description
PageErrorWithBody == [PageFound EXCEPT !.status = 500]
Pages == {PageFound, PageNotFound, PageOtherLayout, PageErrorWithBody}

\* the option values of the term list
TermId(k) == Str(201600 + k)

\* the store at the start of a scrape: a former cycle left the description
\* of ACCT 2000, not those of the other courses
InitialStore ==
    updateCourseDesc(EmptyDict,
                     DescObj(<<<<"2", "0", "0", "0">>, <<"A", "C", "C", "T">>, <<"C", "o", "s", "t", "s">>>>, PageNotFound, TRUE))

(***************************************************************************)
(* The state of a scrape.                                                  *)
(***************************************************************************)
VARIABLES
    pc,               \* where the scraping thread is
    exc,              \* the exception that ended the scrape, "none" if none did
    terms,            \* the term ids `for term in terms` has yet to visit
    term,             \* the term id parseClassList was called with
    rowsRead,         \* rows read so far by this scrape
    lastClassCopy,    \* parseClassList: the class of the last row
    courseClasses,    \* parseClassList: the classes of the course being read
    courseGroupings,  \* parseClassList: the grouping map of that course
    q,                \* the Queue: its items, oldest first
    unfinished,       \* the Queue: unfinished_tasks
    descConcurrency,  \* settings["descConcurrency"]
    spawned,          \* workers started for this term
    wpc,              \* where each worker of this term is
    wdata,            \* the list each worker got from the queue
    classLog,         \* the Sections handed to updateClass for this term, in order
    CourseDesc,       \* the stored descriptions
    hist,             \* per list put on this term's queue: the list, how often it was got,
                      \* stored, acknowledged and answered with a soft error (history)
    noteLog,          \* per note handed to parseNotes in this term: the note,
                      \* its starting group number and the batch it was read
                      \* in (history)
    batch,            \* batches handed to addClasses in this term (history)
    primaryRecords,   \* per primary row read in this term: the dict the row
                      \* started, as the rows since have left it (history)
    rangeArg,         \* classRange: the string it is called with
    rangeResponse,    \* classRange: what it returned
    rangeCalled,      \* classRange: "no", "returned" or "raised"
    Terms,            \* db.Terms: the term documents of this university
    termsPc,          \* where updateTerms is
    termsArg,         \* updateTerms: the terms `for term in terms` has yet to visit
    termsGiven        \* the ids of the terms updateTerms was called with (history)

mainVars == <<pc, exc, terms, term, rowsRead>>
parseVars == <<lastClassCopy, courseClasses, courseGroupings, noteLog, batch,
               primaryRecords>>
queueVars == <<q, unfinished, hist>>
workerVars == <<spawned, wpc, wdata>>
storeVars == <<classLog, CourseDesc>>
rangeVars == <<rangeArg, rangeResponse, rangeCalled>>
termVars == <<Terms, termsPc, termsArg, termsGiven>>
vars == <<mainVars, parseVars, queueVars, workerVars, storeVars, descConcurrency, rangeVars, termVars>>

Workers == 1..MaxWorkers
NoData == <<>>

\* classRange is not being called; updateTerms is not being called and the
\* collection of terms is empty
RangeIdle == rangeArg = <<>> /\ rangeResponse = <<>> /\ rangeCalled = "no"
TermsIdle == Terms = EmptyDict /\ termsPc = "idle" /\ termsArg = <<>> /\ termsGiven = {}

Init ==
    /\ pc = "login"
    /\ exc = "none"
    /\ terms = <<>>
    /\ term = <<>>
    /\ rowsRead = 0
    /\ lastClassCopy = EmptyDict
    /\ courseClasses = <<>>
    /\ courseGroupings = EmptyDict
    /\ q = <<>>
    /\ unfinished = 0
    /\ descConcurrency \in 0..MaxWorkers
    /\ spawned = 0
    /\ wpc = [w \in Workers |-> "new"]
    /\ wdata = [w \in Workers |-> NoData]
    /\ classLog = <<>>
    /\ CourseDesc = InitialStore
    /\ hist = <<>>
    /\ noteLog = <<>>
    /\ batch = 0
    /\ primaryRecords = <<>>
    /\ RangeIdle
    /\ TermsIdle

(***************************************************************************)
(* The Queue of the standard library, as parseClassList and the workers    *)
(* use it: put (line 606), empty (738), get (740), task_done (759) and     *)
(* join (562).  An item carries, beside the list put, its number in the    *)
(* order of the puts, which tells two equal lists apart.                   *)
(***************************************************************************)
\* q.put of each of `tasks`
RECURSIVE PutAll(_, _, _)
PutAll(items, tasks, count) ==
    IF tasks = <<>> THEN items
    ELSE PutAll(Append(items, [data |-> Head(tasks), tid |-> count + 1]),
                Tail(tasks), count + 1)

NewHist(tasks, termid) ==
    [i \in DOMAIN tasks |-> [data |-> tasks[i], deq |-> 0, ups |-> 0, acks |-> 0,
                             soft |-> 0, term |-> termid]]

\* q.join() returns
QueueJoinReadyWhenEmpty(items, unfinished_tasks) == items = <<>>
QueueJoinReady(items, unfinished_tasks) == unfinished_tasks = 0

(***************************************************************************)
(* scrape (lines 627-653).                                                 *)
(***************************************************************************)
\* login fails, or the term page cannot be read
LoginFails ==
    /\ pc = "login"
    /\ pc' = "done"
    /\ UNCHANGED <<exc, terms, term, rowsRead, parseVars, queueVars, workerVars,
                   storeVars, descConcurrency, rangeVars, termVars>>

\* obtainActiveTerms returns the terms of the portal
ObtainTerms ==
    /\ pc = "login"
    /\ \E n \in 0..MaxTerms : terms' = [k \in 1..n |-> TermId(k)]
    /\ pc' = "scrape"
    /\ UNCHANGED <<exc, term, rowsRead, parseVars, queueVars, workerVars, storeVars,
                   descConcurrency, rangeVars, termVars>>

\* the subjects or the classes of the next term cannot be read (lines 644, 652)
SkipTerm ==
    /\ pc = "scrape"
    /\ terms # <<>>
    /\ terms' = Tail(terms)
    /\ UNCHANGED <<pc, exc, term, rowsRead, parseVars, queueVars, workerVars, storeVars,
                   descConcurrency, rangeVars, termVars>>

\* parseClassList is called for the next term (lines 653, 359-397); the
\* workers of the term before, which can only leave their loop or stay in
\* q.get() of the old queue, are no longer followed
StartTerm ==
    /\ pc = "scrape"
    /\ terms # <<>>
    /\ term' = Head(terms)
    /\ terms' = Tail(terms)
    /\ pc' = "parse"
    /\ lastClassCopy' = EmptyDict
    /\ courseClasses' = <<>>
    /\ courseGroupings' = EmptyDict
    /\ noteLog' = <<>>
    /\ batch' = 0
    /\ primaryRecords' = <<>>
    /\ q' = <<>>
    /\ unfinished' = 0
    /\ spawned' = 0
    /\ wpc' = [w \in Workers |-> "new"]
    /\ wdata' = [w \in Workers |-> NoData]
    /\ hist' = <<>>
    /\ classLog' = <<>>
    /\ UNCHANGED <<exc, rowsRead, CourseDesc, descConcurrency, rangeVars, termVars>>

\* every term was visited
ScrapeDone ==
    /\ pc = "scrape"
    /\ terms = <<>>
    /\ pc' = "done"
    /\ UNCHANGED <<exc, terms, term, rowsRead, parseVars, queueVars, workerVars,
                   storeVars, descConcurrency, rangeVars, termVars>>

(***************************************************************************)
(* parseClassList (lines 352-564).                                         *)
(***************************************************************************)
\* a call of addClasses: the Sections go to the store, the tasks to the queue
Added(r) ==
    /\ classLog' = classLog \o r.sections
    /\ q' = PutAll(q, r.tasks, Len(hist))
    /\ unfinished' = unfinished + Len(r.tasks)
    /\ hist' = hist \o NewHist(r.tasks, term)
    /\ batch' = batch + 1
FlushWithoutNotes(classlist, groupings) ==
    Added(addClasses(classlist, EmptyDict, term, CourseDesc))
Flush(classlist, groupings) == Added(addClasses(classlist, groupings, term, CourseDesc))

\* lines 532-550: the end of a turn of the loop over the rows, st being
\* what the cells of the row left behind
RowRead(st) ==
    IF st.raised # "none"
    THEN \* the exception leaves parseClassList and scrape
         /\ pc' = "aborted"
         /\ exc' = st.raised
         /\ UNCHANGED <<parseVars, queueVars, classLog>>
    ELSE /\ lastClassCopy' = st.thisClass
         /\ primaryRecords' =
               IF ~st.isLastClass THEN Append(primaryRecords, st.thisClass)
               ELSE IF primaryRecords = <<>> THEN primaryRecords
               ELSE [primaryRecords EXCEPT ![Len(primaryRecords)] = st.thisClass]
         /\ noteLog' = noteLog \o [i \in DOMAIN st.notes |->
                                     [note |-> st.notes[i].note,
                                      base |-> st.notes[i].base,
                                      batch |-> batch]]
         /\ IF ~st.newCourse /\ ~st.isLastClass
            THEN /\ courseClasses' = Append(courseClasses, st.thisClass)
                 /\ courseGroupings' = st.groupings
                 /\ UNCHANGED <<queueVars, classLog, batch>>
            ELSE IF st.newCourse
            THEN /\ Flush(courseClasses, st.groupings)
                 /\ courseClasses' = <<st.thisClass>>
                 /\ courseGroupings' = EmptyDict
            ELSE \* thisClass is the object lastClassCopy names, which is the
                 \* last of courseClasses once a class was read
                 /\ courseClasses' =
                       IF courseClasses = <<>> THEN courseClasses
                       ELSE [courseClasses EXCEPT ![Len(courseClasses)] = st.thisClass]
                 /\ courseGroupings' = st.groupings
                 /\ UNCHANGED <<queueVars, classLog, batch>>
         /\ UNCHANGED <<pc, exc>>

\* one turn of the loop over the rows (lines 399-550)
ParseRow(rows) ==
    /\ pc = "parse"
    /\ rowsRead < MaxRows
    /\ rowsRead' = rowsRead + 1
    /\ \E row \in rows :
          IF row.th # "none"
          THEN \* a title or a header (lines 400-406)
               UNCHANGED <<pc, exc, parseVars, queueVars, classLog>>
          ELSE RowRead(ProcessRow(row.td, lastClassCopy, courseGroupings))
    /\ UNCHANGED <<terms, term, workerVars, CourseDesc, descConcurrency, rangeVars, termVars>>

\* the rows are read: the last course is added (line 553)
EndOfDocument ==
    /\ pc = "parse"
    /\ Flush(courseClasses, courseGroupings)
    /\ pc' = "spawn"
    /\ UNCHANGED <<exc, terms, term, rowsRead, lastClassCopy, courseClasses,
                   courseGroupings, noteLog, primaryRecords, workerVars, CourseDesc,
                   descConcurrency, rangeVars, termVars>>

\* one turn of the loop that starts the workers (lines 556-559)
SpawnWorkerWhileParsing ==
    /\ pc \in {"parse", "spawn"}
    /\ spawned < descConcurrency
    /\ spawned' = spawned + 1
    /\ wpc' = [wpc EXCEPT ![spawned + 1] = "check"]
    /\ UNCHANGED <<mainVars, parseVars, queueVars, wdata, storeVars, descConcurrency,
                   rangeVars, termVars>>
SpawnWorkerNotStarted ==
    /\ pc = "spawn"
    /\ spawned < descConcurrency
    /\ spawned' = spawned + 1
    /\ UNCHANGED <<mainVars, parseVars, queueVars, wpc, wdata, storeVars, descConcurrency,
                   rangeVars, termVars>>
SpawnWorker ==
    /\ pc = "spawn"
    /\ spawned < descConcurrency
    /\ spawned' = spawned + 1
    /\ wpc' = [wpc EXCEPT ![spawned + 1] = "check"]
    /\ UNCHANGED <<mainVars, parseVars, queueVars, wdata, storeVars, descConcurrency, rangeVars, termVars>>

\* the loop is over; q.join() is called (line 562)
CallJoin ==
    /\ pc = "spawn"
    /\ spawned = descConcurrency
    /\ pc' = "join"
    /\ UNCHANGED <<exc, terms, term, rowsRead, parseVars, queueVars, workerVars,
                   storeVars, descConcurrency, rangeVars, termVars>>

\* q.join() returns (line 562)
Join ==
    /\ pc = "join"
    /\ QueueJoinReady(q, unfinished)
    /\ pc' = "joined"
    /\ UNCHANGED <<exc, terms, term, rowsRead, parseVars, queueVars, workerVars,
                   storeVars, descConcurrency, rangeVars, termVars>>

\* parseClassList returns (line 564)
FinishTerm ==
    /\ pc = "joined"
    /\ pc' = "scrape"
    /\ UNCHANGED <<exc, terms, term, rowsRead, parseVars, queueVars, workerVars,
                   storeVars, descConcurrency, rangeVars, termVars>>

(***************************************************************************)
(* CourseDescriptions.run (lines 737-762).  `if data:` holds for every     *)
(* list put on the queue, which has three elements.                        *)
(***************************************************************************)
\* while not self.q.empty() (line 738)
WorkerCheck(w) ==
    /\ wpc[w] = "check"
    /\ wpc' = [wpc EXCEPT ![w] = IF q = <<>> THEN "exited" ELSE "get"]
    /\ UNCHANGED <<mainVars, parseVars, queueVars, spawned, wdata, storeVars,
                   descConcurrency, rangeVars, termVars>>

\* data = self.q.get() (line 740), which blocks while the queue is empty
WorkerGet(w) ==
    /\ wpc[w] = "get"
    /\ q # <<>>
    /\ wdata' = [wdata EXCEPT ![w] = Head(q)]
    /\ q' = Tail(q)
    /\ hist' = [hist EXCEPT ![Head(q).tid].deq = @ + 1]
    /\ wpc' = [wpc EXCEPT ![w] = "fetch"]
    /\ UNCHANGED <<mainVars, parseVars, unfinished, spawned, storeVars, descConcurrency, rangeVars, termVars>>

\* where a worker is after the try statement of lines 745-757, whether or
\* not the except clause was entered: before self.q.task_done() (line 759)
AfterTryUnlessRaised(raised) == IF raised THEN "dead" ELSE "ack"
AfterTry(raised) == "ack"

\* requests.get raises (line 749): the except clause logs (line 757)
WorkerFetchRaises(w) ==
    /\ wpc[w] = "fetch"
    /\ wpc' = [wpc EXCEPT ![w] = AfterTry(TRUE)]
    /\ UNCHANGED <<mainVars, parseVars, queueVars, spawned, wdata, storeVars,
                   descConcurrency, rangeVars, termVars>>

\* requests.get returns a page, processBody is called on it (lines 749-755)
WorkerFetch(w) ==
    /\ wpc[w] = "fetch"
    /\ \E r \in Pages :
          LET error == SoftError(r)
          IN  /\ IF processBodyRaises(r, error)
                 THEN UNCHANGED <<CourseDesc, hist>>
                 ELSE /\ CourseDesc' = updateCourseDesc(CourseDesc,
                                                        DescObj(wdata[w].data, r, error))
                      /\ hist' = [hist EXCEPT ![wdata[w].tid].ups = @ + 1,
                                              ![wdata[w].tid].soft =
                                                  IF error THEN @ + 1 ELSE @]
              /\ wpc' = [wpc EXCEPT ![w] = AfterTry(processBodyRaises(r, error))]
    /\ UNCHANGED <<mainVars, parseVars, q, unfinished, spawned, wdata, classLog,
                   descConcurrency, rangeVars, termVars>>

\* self.q.task_done() (line 759)
WorkerTaskDone(w) ==
    /\ wpc[w] = "ack"
    /\ unfinished' = unfinished - 1
    /\ hist' = [hist EXCEPT ![wdata[w].tid].acks = @ + 1]
    /\ wdata' = [wdata EXCEPT ![w] = NoData]
    /\ wpc' = [wpc EXCEPT ![w] = "check"]
    /\ UNCHANGED <<mainVars, parseVars, q, spawned, storeVars, descConcurrency, rangeVars, termVars>>

Next ==
    \/ LoginFails
    \/ ObtainTerms
    \/ SkipTerm
    \/ StartTerm
    \/ ScrapeDone
    \/ ParseRow(ScrapeRows)
    \/ EndOfDocument
    \/ SpawnWorker
    \/ CallJoin
    \/ Join
    \/ FinishTerm
    \/ \E w \in Workers : WorkerCheck(w)
    \/ \E w \in Workers : WorkerGet(w)
    \/ \E w \in Workers : WorkerFetchRaises(w)
    \/ \E w \in Workers : WorkerFetch(w)
    \/ \E w \in Workers : WorkerTaskDone(w)

Spec == Init /\ [][Next]_vars

(***************************************************************************)
(* parseClassList by itself: the call for the last term of a scrape whose  *)
(* settings ask for one worker, over listings of a wider choice of rows.   *)
(***************************************************************************)
InitListing ==
    /\ pc = "parse"
    /\ exc = "none"
    /\ terms = <<>>
    /\ term = TermId(1)
    /\ rowsRead = 0
    /\ lastClassCopy = EmptyDict
    /\ courseClasses = <<>>
    /\ courseGroupings = EmptyDict
    /\ q = <<>>
    /\ unfinished = 0
    /\ descConcurrency = 1
    /\ spawned = 0
    /\ wpc = [w \in Workers |-> "new"]
    /\ wdata = [w \in Workers |-> NoData]
    /\ classLog = <<>>
    /\ CourseDesc = InitialStore
    /\ hist = <<>>
    /\ noteLog = <<>>
    /\ batch = 0
    /\ primaryRecords = <<>>
    /\ RangeIdle
    /\ TermsIdle

NextListing ==
    \/ ParseRow(ListingRows)
    \/ EndOfDocument
    \/ SpawnWorker
    \/ CallJoin
    \/ Join
    \/ FinishTerm
    \/ ScrapeDone
    \/ \E w \in Workers : WorkerCheck(w)
    \/ \E w \in Workers : WorkerGet(w)
    \/ \E w \in Workers : WorkerFetchRaises(w)
    \/ \E w \in Workers : WorkerFetch(w)
    \/ \E w \in Workers : WorkerTaskDone(w)

SpecListing == InitListing /\ [][NextListing]_vars

(***************************************************************************)
(* parseNotes by itself: the calls of line 438 for the notes of one course, *)
(* over a wider choice of notes.                                           *)
(***************************************************************************)
NoteRead(note, r) ==
    /\ courseGroupings' = r.dict
    /\ noteLog' = Append(noteLog, [note |-> note,
                                  base |-> StartGroupNum(courseGroupings),
                                  batch |-> batch])
    /\ IF r.raised
       THEN pc' = "aborted" /\ exc' = "ValueError in classRange"
       ELSE UNCHANGED <<pc, exc>>

ReadNote ==
    /\ pc = "parse"
    /\ Len(noteLog) < MaxNotes
    /\ \E note \in Notes : NoteRead(note, parseNotes(note, courseGroupings))
    /\ UNCHANGED <<terms, term, rowsRead, lastClassCopy, courseClasses, batch,
                   primaryRecords, queueVars, workerVars, storeVars, descConcurrency, rangeVars, termVars>>

NextNotes == ReadNote

SpecNotes == InitListing /\ [][NextNotes]_vars

(***************************************************************************)
(* classRange by itself: one call (line 337) with a range of two section   *)
(* numbers, written as they are or filled with zeros to three digits, or   *)
(* with a range that lacks an end.                                         *)
(***************************************************************************)
\* the scraping thread has returned and left nothing behind
ScrapeIdle ==
    /\ pc = "done"
    /\ exc = "none"
    /\ terms = <<>>
    /\ term = <<>>
    /\ rowsRead = 0
    /\ lastClassCopy = EmptyDict
    /\ courseClasses = <<>>
    /\ courseGroupings = EmptyDict
    /\ q = <<>>
    /\ unfinished = 0
    /\ descConcurrency = 1
    /\ spawned = 0
    /\ wpc = [w \in Workers |-> "new"]
    /\ wdata = [w \in Workers |-> NoData]
    /\ classLog = <<>>
    /\ CourseDesc = InitialStore
    /\ hist = <<>>
    /\ noteLog = <<>>
    /\ batch = 0
    /\ primaryRecords = <<>>

\* a section number as the notes write it
ZeroFill(digits, width) ==
    [i \in 1..(width - Len(digits)) |-> "0"] \o digits
SectionNumber(n, filled) == IF filled THEN ZeroFill(Str(n), 3) ELSE Str(n)
RangeString(a, b, filled) == SectionNumber(a, filled) \o <<"-">> \o SectionNumber(b, filled)
RangeStrings ==
    {RangeString(a, b, filled) : a \in 0..MaxEnd, b \in 0..MaxEnd, filled \in BOOLEAN}
        \cup {<<"5", "0", "1", "-">>, <<"-", "5", "0", "1">>}

InitRange ==
    /\ ScrapeIdle
    /\ TermsIdle
    /\ rangeArg \in RangeStrings
    /\ rangeResponse = <<>>
    /\ rangeCalled = "no"

\* classes = self.classRange(group)
CallClassRange ==
    /\ rangeCalled = "no"
    /\ IF classRangeRaises(rangeArg)
       THEN rangeCalled' = "raised" /\ UNCHANGED rangeResponse
       ELSE rangeCalled' = "returned" /\ rangeResponse' = classRange(rangeArg)
    /\ UNCHANGED <<rangeArg, mainVars, parseVars, queueVars, workerVars, storeVars,
                   descConcurrency, termVars>>

NextRange == CallClassRange

SpecRange == InitRange /\ [][NextRange]_vars

(***************************************************************************)
(* University.updateTerms (University.py, lines 72-115) by itself, called  *)
(* once per scrape with the terms obtainActiveTerms found enabled.         *)
(* db.Terms holds the documents of this university: a function from the id *)
(* of a document to its field `enabled`.                                   *)
(***************************************************************************)
\* the id of a document that has no field "id"
NoId == <<>>

\* self.db.Terms.update({"uni": ...}, {"$set": {"enabled": False}}, {"multi": True})
\* (line 91).  The third positional parameter of Collection.update is upsert,
\* so the dict {"multi": True} is taken as a true upsert and multi keeps its
\* default False: the update changes one matching document, whichever the
\* server finds first, and inserts {"uni": ..., "enabled": False} when
\* there is none.  The result is the set of collections the call may leave.
resetEnabledTerms(coll) ==
    IF DOMAIN coll = {} THEN {DictSet(coll, NoId, [enabled |-> FALSE])}
    ELSE {[coll EXCEPT ![d] = [enabled |-> FALSE]] : d \in DOMAIN coll}

\* the update with upsert=True of lines 102-115
updateTerm(coll, termobj) == DictSet(coll, termobj.id, [enabled |-> TRUE])

\* the list obtainActiveTerms hands to updateTerms (MTRoyal.py, lines 87-113)
RECURSIVE EnabledTerms(_)
EnabledTerms(ks) ==
    IF ks = {} THEN <<>>
    ELSE <<[id |-> TermId(SetMin(ks)), enabled |-> TRUE]>> \o EnabledTerms(ks \ {SetMin(ks)})

InitTerms ==
    /\ ScrapeIdle
    /\ RangeIdle
    /\ TermsIdle

\* updateTerms(terms) is called (line 72)
CallUpdateTerms ==
    /\ termsPc \in {"idle", "returned"}
    /\ \E ks \in SUBSET (1..MaxTermIds) :
          /\ termsArg' = EnabledTerms(ks)
          /\ termsGiven' = {TermId(k) : k \in ks}
    /\ termsPc' = "reset"
    /\ UNCHANGED <<Terms, mainVars, parseVars, queueVars, workerVars, storeVars,
                   descConcurrency, rangeVars>>

\* self.resetEnabledTerms() (line 80)
ResetEnabledTerms ==
    /\ termsPc = "reset"
    /\ Terms' \in resetEnabledTerms(Terms)
    /\ termsPc' = "loop"
    /\ UNCHANGED <<termsArg, termsGiven, mainVars, parseVars, queueVars, workerVars,
                   storeVars, descConcurrency, rangeVars>>

\* one turn of `for term in terms` (lines 82-83)
UpdateTerm ==
    /\ termsPc = "loop"
    /\ termsArg # <<>>
    /\ Terms' = updateTerm(Terms, Head(termsArg))
    /\ termsArg' = Tail(termsArg)
    /\ UNCHANGED <<termsPc, termsGiven, mainVars, parseVars, queueVars, workerVars,
                   storeVars, descConcurrency, rangeVars>>

\* updateTerms returns
ReturnUpdateTerms ==
    /\ termsPc = "loop"
    /\ termsArg = <<>>
    /\ termsPc' = "returned"
    /\ UNCHANGED <<Terms, termsArg, termsGiven, mainVars, parseVars, queueVars,
                   workerVars, storeVars, descConcurrency, rangeVars>>

NextTerms ==
    \/ CallUpdateTerms
    \/ ResetEnabledTerms
    \/ UpdateTerm
    \/ ReturnUpdateTerms

SpecTerms == InitTerms /\ [][NextTerms]_vars

(***************************************************************************)
(* The pool of workers: parseClassList for the last term of a scrape, with *)
(* any number of workers from one on.  The scraping thread and every       *)
(* worker are threads of the interpreter, which lets each thread that can  *)
(* take a step take one in the end.                                        *)
(***************************************************************************)
InitPool ==
    /\ pc = "parse"
    /\ exc = "none"
    /\ terms = <<>>
    /\ term = TermId(1)
    /\ rowsRead = 0
    /\ lastClassCopy = EmptyDict
    /\ courseClasses = <<>>
    /\ courseGroupings = EmptyDict
    /\ q = <<>>
    /\ unfinished = 0
    /\ descConcurrency \in 1..MaxWorkers
    /\ spawned = 0
    /\ wpc = [w \in Workers |-> "new"]
    /\ wdata = [w \in Workers |-> NoData]
    /\ classLog = <<>>
    /\ CourseDesc = InitialStore
    /\ hist = <<>>
    /\ noteLog = <<>>
    /\ batch = 0
    /\ primaryRecords = <<>>
    /\ RangeIdle
    /\ TermsIdle

NextPool ==
    \/ ParseRow(ScrapeRows)
    \/ EndOfDocument
    \/ SpawnWorker
    \/ CallJoin
    \/ Join
    \/ FinishTerm
    \/ ScrapeDone
    \/ \E w \in Workers : WorkerCheck(w)
    \/ \E w \in Workers : WorkerGet(w)
    \/ \E w \in Workers : WorkerFetchRaises(w)
    \/ \E w \in Workers : WorkerFetch(w)
    \/ \E w \in Workers : WorkerTaskDone(w)

\* a step of the scraping thread, a step of worker w
ScrapeStep ==
    \/ ParseRow(ScrapeRows)
    \/ EndOfDocument
    \/ SpawnWorker
    \/ CallJoin
    \/ Join
    \/ FinishTerm
    \/ ScrapeDone
WorkerStep(w) ==
    \/ WorkerCheck(w)
    \/ WorkerGet(w)
    \/ WorkerFetchRaises(w)
    \/ WorkerFetch(w)
    \/ WorkerTaskDone(w)

SpecPool ==
    /\ InitPool
    /\ [][NextPool]_vars
    /\ WF_vars(ScrapeStep)
    /\ \A w \in Workers : WF_vars(WorkerStep(w))

(***************************************************************************)
(* The properties.                                                         *)
(***************************************************************************)
\* the key under which the store keeps the description of a list put on the
\* queue
TaskCourse(data) == <<data[2], data[1]>>

\* C1: q.join() does not return, so parseClassList does not return and scrape
\* does not go on to the next term, until every list put on the queue during
\* the term's parse was got and acknowledged with task_done, whatever the
\* number of lists and of workers.
C1_BarrierWaitsForEveryTask ==
    pc \in {"joined", "scrape", "done"} =>
        \A i \in DOMAIN hist : hist[i].deq >= 1 /\ hist[i].acks >= 1

\* the barrier was passed with fewer workers than lists on the queue
C1_FewerWorkersThanTasks ==
    /\ pc = "joined"
    /\ descConcurrency = 1
    /\ Len(hist) >= 2
    /\ \A i \in DOMAIN hist : hist[i].acks = 1

\* C2: when q.join() returns, the store holds a description for the course of
\* every list put on the queue in the term.
C2_DescriptionForEveryTask ==
    pc = "joined" =>
        \A i \in DOMAIN hist : TaskCourse(hist[i].data) \in DOMAIN CourseDesc

\* the keys and the map of the note of the docstring of parseNotes
Lecture007Keys ==
    {<<"L", "E", "C", " ", "0", "0", "7">>, <<"T", "U", "T", " ", "4", "0", "1">>, <<"T", "U", "T", " ", "4", "0", "2">>, <<"T", "U", "T", " ", "4", "0", "3">>, <<"T", "U", "T", " ", "4", "0", "6">>, <<"T", "U", "T", " ", "4", "0", "7">>,
     <<"L", "A", "B", " ", "5", "0", "1">>, <<"L", "A", "B", " ", "5", "0", "2">>}
Lecture007Alone == Len(noteLog) = 1 /\ noteLog[1].note = NoteLecture007

C4_NeverRemovesAnId ==
    [][\A k \in DOMAIN courseGroupings :
          /\ k \in DOMAIN courseGroupings'
          /\ \A g \in Range(courseGroupings[k]) : g \in Range(courseGroupings'[k])]_vars

\* C5: a cell that cannot be coerced to the kind of its column does not abort
\* the parse of the document.
C5_ParseNeverAborted == pc # "aborted"

\* C6: when the rows of a listing are read, exactly one list was put on the
\* queue for every course of the listing that has no stored description.
C6_OneTaskPerCourse ==
    (pc = "spawn" /\ spawned = 0) =>
        \A i \in DOMAIN classLog :
            LET course == <<classLog[i]["subject"], classLog[i]["coursenum"]>>
            IN  course \notin DOMAIN CourseDesc =>
                    Cardinality({j \in DOMAIN hist : TaskCourse(hist[j].data) = course}) = 1

\* C7: when q.join() has returned, every list put on the queue was got once,
\* its description stored once and the list acknowledged once.
C7_ProcessedExactlyOnce ==
    pc = "joined" =>
        \A i \in DOMAIN hist : hist[i].deq = 1 /\ hist[i].ups = 1 /\ hist[i].acks = 1

\* the starting group numbers the notes before note i gave out, in the same
\* batch only or in the whole term
BasesBefore(i, sameBatch) ==
    {noteLog[j].base : j \in {j \in 1..(i - 1) :
        /\ NoteRecognised(noteLog[j].note)
        /\ sameBatch => noteLog[j].batch = noteLog[i].batch}}

C9_GroupNeverEmpty ==
    \A i \in DOMAIN classLog : classLog[i]["group"] # <<>>

\* a Section took its group from the map after a note with an empty range
C9_GroupFromMapAfterEmptyRange ==
    /\ \E i \in DOMAIN classLog : classLog[i]["group"] = <<PyInt(1)>>
    /\ \E i \in DOMAIN noteLog : noteLog[i].note = NoteEmptyRange

\* C10: a class whose key "<type> <section>" is not in the grouping map of
\* its batch is handed to updateClass with group exactly ["1"].
C10_DefaultGroupIsStringOne ==
    [][\A i \in DOMAIN classLog' :
          (i > Len(classLog) /\ GroupKey(classLog'[i]) \notin DOMAIN courseGroupings)
              => classLog'[i]["group"] = <<PyStr(<<"1">>)>>]_vars

\* a batch with a non-empty map in which one class has its key and another
\* has not
C10_DefaultBesideMappedClass ==
    \E i, j \in DOMAIN classLog :
        /\ classLog[i]["coursenum"] = classLog[j]["coursenum"]
        /\ classLog[i]["group"] = <<PyStr(<<"1">>)>>
        /\ classLog[j]["group"] = <<PyInt(1)>>

\* C11: a batch handed to addClasses holds the classes of one course number
\* only, and a row changes no class but the last of the batch being read, the
\* one the last primary row started: the classes before it and the Sections
\* already handed to updateClass stay as they are.
C11_BatchWithinOneCourse ==
    [][/\ \A i, j \in (Len(classLog) + 1)..Len(classLog') :
             classLog'[i]["coursenum"] = classLog'[j]["coursenum"]
       /\ \A i \in DOMAIN classLog : classLog'[i] = classLog[i]
       /\ batch' = batch =>
             \A i \in 1..(Len(courseClasses) - 1) : courseClasses'[i] = courseClasses[i]
       /\ \A i \in DOMAIN courseClasses' :
             courseClasses'[i]["coursenum"] = courseClasses'[1]["coursenum"]]_vars

\* a batch of two classes, the first with a second meeting from a
\* continuation row, was handed over when the next course began
C11_BatchFlushedAtBoundary ==
    /\ batch = 1
    /\ Len(classLog) = 2
    /\ Len(classLog[1]["times"]) = 2
    /\ Len(courseClasses) = 1
    /\ courseClasses[1]["coursenum"] # classLog[1]["coursenum"]

\* the seats cell of the primary row that started a class, which its id tells
SeatsCellOf(rec) ==
    Strip((CHOOSE row \in PrimaryRows :
              IntOk(row.td[2]) /\ IntOf(row.td[2]) = rec["id"]).td[13])

\* the classes read so far: those of the batch being read and those handed
\* to updateClass
ClassesRead == Range(courseClasses) \cup Range(classLog)

NameWords(name) ==
    LET NotEmpty(w) == w # <<>>
    IN  SelectSeq(Split(name, <<" ">>), NotEmpty)

\* C13: the teachers of a class never hold the same name twice, the spaces
\* inside the name set aside: "John  Smith" and "John Smith", in either order
\* and on primary or continuation rows, leave one entry.
C13_TeachersWithoutDuplicate ==
    \A rec \in ClassesRead \cup {lastClassCopy} :
        "teachers" \in DOMAIN rec =>
            \A i, j \in DOMAIN rec["teachers"] :
                i < j => NameWords(rec["teachers"][i]) # NameWords(rec["teachers"][j])

\* one class read the name with two spaces and then with one, another with
\* one space and then with two; each keeps the single entry "John Smith"
C13_BothOrdersOneEntry ==
    \E a, b \in Range(courseClasses) :
        /\ a["id"] = 10001 /\ <<"B", "1", "0", "3">> \in Range(a["rooms"])
        /\ b["id"] = 10002 /\ <<"B", "1", "0", "4">> \in Range(b["rooms"])
        /\ a["teachers"] = <<<<"J", "o", "h", "n", " ", "S", "m", "i", "t", "h">>>>
        /\ b["teachers"] = a["teachers"]

\* C14: called with the range "A-B" of two section numbers, classRange
\* returns the decimal strings of A, A + 1, ..., B in increasing order, B - A + 1
\* of them, when A <= B, and the empty list when A > B.
C14_RangeIsEveryNumber ==
    \A a, b \in 0..MaxEnd, filled \in BOOLEAN :
        (rangeArg = RangeString(a, b, filled) /\ rangeCalled # "no") =>
            /\ rangeCalled = "returned"
            /\ Len(rangeResponse) = IF a <= b THEN b - a + 1 ELSE 0
            /\ \A k \in DOMAIN rangeResponse : rangeResponse[k] = Str(a + k - 1)

\* the range "009-011" gave "9", "10", "11"
C14_RangeAcrossTen ==
    /\ rangeArg = <<"0", "0", "9", "-", "0", "1", "1">>
    /\ rangeResponse = << <<"9">>, <<"1", "0">>, <<"1", "1">> >>

\* C15: when updateTerms(T) has returned, the enabled terms of the collection
\* are exactly the terms of T, and no document that was stored is ever gone.
C15_EnabledTermsAreTheGiven ==
    [][/\ termsPc' = "returned" =>
             {d \in DOMAIN Terms' : Terms'[d].enabled} = termsGiven'
       /\ DOMAIN Terms \subseteq DOMAIN Terms']_vars

\* C16: an exception raised while a list of the queue is fetched or processed
\* does not end the worker: whatever the fetch did, the worker goes on to
\* task_done for that list and from there to the test of the queue.
C16_WorkerSurvivesException ==
    [][\A w \in Workers :
          /\ (wpc[w] = "fetch" /\ wpc'[w] # "fetch") => wpc'[w] = "ack"
          /\ (wpc[w] = "ack" /\ wpc'[w] # "ack") =>
                /\ wpc'[w] = "check"
                /\ hist'[wdata[w].tid].acks = hist[wdata[w].tid].acks + 1]_vars

\* the only worker acknowledged a list whose fetch raised, nothing being
\* stored for it, and got the next list
C16_NextTaskAfterException ==
    /\ descConcurrency = 1
    /\ wpc[1] = "fetch"
    /\ \E i \in DOMAIN hist : hist[i].ups = 0 /\ hist[i].acks = 1

\* C17: a call of addClasses puts at most one list on the queue, however many
\* classes the batch has: none when the course of every class has a stored
\* description, and otherwise one, for the first class whose course has none.
C17_OneTaskPerBatch ==
    [][batch' = batch + 1 =>
          LET added == (Len(classLog) + 1)..Len(classLog')
              missing == {i \in added :
                             <<classLog'[i]["subject"], classLog'[i]["coursenum"]>>
                                 \notin DOMAIN CourseDesc}
          IN  IF missing = {} THEN Len(hist') = Len(hist)
              ELSE /\ Len(hist') = Len(hist) + 1
                   /\ hist'[Len(hist')].data[1] = classLog'[SetMin(missing)]["coursenum"]
                   /\ hist'[Len(hist')].data[2] = classLog'[SetMin(missing)]["subject"]]_vars

\* a batch of two classes without a stored description put one list on the
\* queue
C17_TwoClassesOneTask ==
    /\ batch = 1
    /\ Len(classLog) = 2
    /\ Len(hist) = 1
    /\ \A i \in DOMAIN classLog :
          <<classLog[i]["subject"], classLog[i]["coursenum"]>> \notin DOMAIN CourseDesc

\* C18: every worker that was started leaves its loop in the end: none stays
\* in q.get() for ever, whatever the number of workers and of lists and the
\* order of the workers' steps.
C18_EveryWorkerExits ==
    \A w \in Workers : (wpc[w] # "new") ~> (wpc[w] = "exited")

\* the notes of "Lecture 001" whose only clause is malformed: a range that
\* lacks an end, a type word without a section number
MalformedNotes == {NoteBadRange, NoteNoSection}

\* C19: a malformed clause of a note is skipped without a trace: the call of
\* parseNotes returns normally, the parse goes on, and the clause adds no
\* key to the grouping map (the calling class alone may be new).
C19_MalformedClauseSkipped ==
    [][(/\ Len(noteLog') = Len(noteLog) + 1
        /\ noteLog'[Len(noteLog')].note \in MalformedNotes) =>
           /\ pc' = "parse"
           /\ DOMAIN courseGroupings' \subseteq
                 DOMAIN courseGroupings \cup {<<"L", "E", "C", " ", "0", "0", "1">>}]_vars

\* C20: every value of the grouping map, and so the group of every Section
\* handed to updateClass, is a list of strings.
C20_GroupIdsAreStrings ==
    /\ \A k \in DOMAIN courseGroupings :
          \A i \in DOMAIN courseGroupings[k] : courseGroupings[k][i].t = "str"
    /\ \A n \in DOMAIN classLog :
          \A i \in DOMAIN classLog[n]["group"] : classLog[n]["group"][i].t = "str"

\* C21: when parseNotes has processed a recognised note, every class a clause
\* of the note named (every key that is new or whose list changed) has a group
\* id in common with the calling class, the ids compared as they are stored.
C21_ClausesShareIdWithCaller ==
    [][(/\ Len(noteLog') = Len(noteLog) + 1
        /\ NoteRecognised(noteLog'[Len(noteLog')].note)
        /\ pc' = "parse") =>
           LET caller == CallingClass(noteLog'[Len(noteLog')].note)
           IN  \A k \in DOMAIN courseGroupings' :
                   (k \notin DOMAIN courseGroupings \/ courseGroupings'[k] # courseGroupings[k])
                       => Range(courseGroupings'[k]) \cap Range(courseGroupings'[caller]) # {}]_vars

\* the notes that have not the shape "<type word> <section> take <clauses>"
\* or whose type word is no instruction type
UnrecognisedNotes == {NoteOtherShape, NoteUnknownType}

\* C22: a note that has not the shape of a grouping note, or whose type word
\* resolves to no instruction type, leaves the grouping map as it was and
\* raises no error.
C22_UnrecognisedNoteIgnored ==
    [][(/\ Len(noteLog') = Len(noteLog) + 1
        /\ noteLog'[Len(noteLog')].note \in UnrecognisedNotes) =>
           /\ courseGroupings' = courseGroupings
           /\ pc' = "parse"]_vars

\* "Seminar 001 take lab 501" was read after a note that filled the map
C22_UnknownTypeAfterGrouping ==
    /\ Len(noteLog) = 2
    /\ noteLog[1].note = NoteLecLab
    /\ noteLog[2].note = NoteUnknownType
    /\ Cardinality(DOMAIN courseGroupings) = 2
    /\ pc = "parse"

\* the fields a primary row sets once, and whether a list begins with another
ScalarFields == {"id", "subject", "coursenum", "section", "title", "type", "status"}
IsPrefix(a, b) == Len(a) <= Len(b) /\ \A i \in DOMAIN a : a[i] = b[i]

\* C23: a row that starts no class (a continuation row, a note row) changes
\* no scalar field of the class it extends: id, subject, coursenum, section,
\* title, type and status stay, and the lists times, teachers and rooms only
\* grow at their end.
C23_ContinuationKeepsScalars ==
    [][(/\ rowsRead' = rowsRead + 1
        /\ pc' = "parse"
        /\ batch' = batch
        /\ courseClasses # <<>>
        /\ Len(courseClasses') = Len(courseClasses)) =>
           LET old == courseClasses[Len(courseClasses)]
               new == courseClasses'[Len(courseClasses)]
           IN  /\ DOMAIN old \subseteq DOMAIN new
               /\ \A k \in DOMAIN old :
                     IF k \in ScalarFields THEN new[k] = old[k]
                     ELSE IsPrefix(old[k], new[k])]_vars

\* a class that two continuation rows extended
C23_TwoContinuationRows ==
    \E rec \in Range(courseClasses) :
        /\ Len(rec["rooms"]) = 3
        /\ Len(rec["times"]) = 3
        /\ rec["title"] = <<"I", "n", "t", "r", "o">>

\* C24: the notes of a course are in the grouping map before a Section of the
\* course is resolved.  When a note is handed to parseNotes, the class it
\* belongs to, that of the row before, is still in the batch being read; and
\* a call of addClasses resolves every class of its batch with the map that
\* holds all the notes read for the batch.
C24_NotesBeforeSections ==
    [][/\ (Len(noteLog') > Len(noteLog) /\ "id" \in DOMAIN lastClassCopy) =>
             /\ batch' = batch
             /\ courseClasses # <<>>
             /\ courseClasses[Len(courseClasses)] = lastClassCopy
       /\ batch' = batch + 1 =>
             /\ \A j \in DOMAIN noteLog :
                   (noteLog[j].batch = batch /\ NoteRecognised(noteLog[j].note))
                       => CallingClass(noteLog[j].note) \in DOMAIN courseGroupings
             /\ \A i \in (Len(classLog) + 1)..Len(classLog') :
                   LET key == classLog'[i]["type"] \o <<" ">> \o classLog'[i]["section"]
                   IN  classLog'[i]["group"] =
                          IF key \in DOMAIN courseGroupings THEN courseGroupings[key]
                          ELSE <<PyStr(<<"1">>)>>]_vars

\* the note of the last section of a course was read, and the Section of
\* that course was then handed over with the group of the note
C24_NoteOfLastSectionUsed ==
    /\ batch = 1
    /\ Len(noteLog) = 1
    /\ noteLog[1].note = NoteLecLab
    /\ noteLog[1].batch = 0
    /\ Len(classLog) = 1
    /\ classLog[1]["group"] = <<PyInt(1)>>
    /\ Len(courseClasses) = 1

\* C25: when the answer to a fetch is a soft error (a status other than 200,
\* or "page not found" in the body), the worker stores a description that
\* holds the subject, the coursenum and the name of the list it got and
\* nothing else; the list is not put on the queue again and is got once.
C25_SoftErrorStoresMinimal ==
    [][\A i \in DOMAIN hist :
          /\ hist[i].deq <= 1
          /\ (i \in DOMAIN hist' /\ hist'[i].soft = hist[i].soft + 1) =>
                /\ CourseDesc'[TaskCourse(hist[i].data)] =
                      [k \in {"subject", "coursenum", "name"} |->
                          CASE k = "subject" -> hist[i].data[2]
                            [] k = "coursenum" -> hist[i].data[1]
                            [] k = "name" -> hist[i].data[3]]
                /\ q' = q]_vars

\* a list answered with a soft error was acknowledged, and q.join() returned
C25_SoftErrorThenJoined ==
    /\ pc = "joined"
    /\ \E i \in DOMAIN hist :
          /\ hist[i].soft = 1
          /\ hist[i].acks = 1
          /\ DOMAIN CourseDesc[TaskCourse(hist[i].data)] = {"subject", "coursenum", "name"}

\* C26: no worker of a term runs while the listing of the term is parsed: no
\* worker is started before the rows are read, every Section is handed to
\* updateClass before the first worker is started, and a description is
\* stored only after the last Section.
C26_SectionsBeforeWorkers ==
    [][/\ pc = "parse" => (spawned = 0 /\ \A w \in Workers : wpc[w] = "new")
       /\ Len(classLog') > Len(classLog) => spawned = 0
       /\ CourseDesc' # CourseDesc =>
             (pc \in {"spawn", "join"} /\ classLog' = classLog)]_vars

\* two Sections were handed over, then a worker stored a description
C26_DescriptionAfterSections ==
    /\ pc = "join"
    /\ Len(classLog) >= 2
    /\ \E i \in DOMAIN hist : hist[i].ups = 1 /\ hist[i].soft = 0

\* C27: with one worker or more, every fetch returning or raising and every
\* thread taking its steps in the end, q.join() returns and parseClassList
\* with it, whatever the number of lists on the queue: from the start of the
\* workers on, the scraping thread gets back to scrape.
C27_BarrierReleased ==
    (pc = "spawn") ~> (pc = "scrape")

\* parseClassList returned from a term with two workers and two lists, one
\* of the workers still waiting in q.get()
C27_ReturnedWithBlockedWorker ==
    /\ pc = "scrape"
    /\ descConcurrency = 2
    /\ Len(hist) = 2
    /\ \E w \in Workers : wpc[w] = "get"

\* C28: while the rows parse, the dict every primary row started is handed
\* to updateClass once, in the order of the rows and at the latest when the
\* rows are read, and what was handed over is the dict as the continuation
\* rows after it left it, less its title: no dict is left out, handed over
\* twice or changed by a later row once it was handed over.
C28_EachRecordUpsertedOnce ==
    /\ Len(classLog) <= Len(primaryRecords)
    /\ \A i \in DOMAIN classLog :
          \A k \in (DOMAIN primaryRecords[i]) \ {"title"} :
             k \in DOMAIN classLog[i] /\ classLog[i][k] = primaryRecords[i][k]
    /\ pc \notin {"parse", "aborted"} => Len(classLog) = Len(primaryRecords)

\* the rows are read: two classes of two courses, the first with a
\* continuation row that added a second time and a second room
C28_TwoCoursesWithContinuation ==
    /\ pc = "spawn"
    /\ Len(classLog) = 2
    /\ classLog[1]["coursenum"] # classLog[2]["coursenum"]
    /\ Len(classLog[1]["times"]) = 2
    /\ Len(classLog[1]["rooms"]) = 2
=============================================================================
